---- MODULE Spec2Model ----
(***************************************************************************)
(* Rank-based evaluation of pykeen: compute_rank_from_scores, the          *)
(* RankBasedEvaluator accumulator and the RankBasedMetricResults           *)
(* container (src/src/pykeen/evaluation/rank_based_evaluator.py).          *)
(*                                                                         *)
(* Floating-point values are modelled as exact rationals extended with the *)
(* IEEE specials NaN, +inf and -inf; rounding is not modelled.             *)
(***************************************************************************)
EXTENDS Integers, Sequences, FiniteSets, TLC

VARIABLES
    \* ---- compute_rank_from_scores, applied to one row ----
    true_score,     \* the true_score tensor (a batch of scalars)
    all_scores,     \* the all_scores tensor (a batch of rows)
    orig_scores,    \* all_scores as first given, before entries were removed
    stage,          \* "new" | "computed" | "nan_dropped" | "nonfinite_dropped"
    out,            \* result of compute_rank_from_scores on orig_scores
    out2,           \* result of compute_rank_from_scores on all_scores
    \* ---- RankBasedEvaluator ----
    ks,             \* self.ks
    ranks,          \* self.ranks: rank kind -> list of values (only touched keys)
    ret,            \* value returned by the last call (finalize's container)
    history,        \* rows (true score, scores) processed since the last finalize
    nbatch,         \* number of process calls since the last finalize
    dirs,           \* directions ("head"/"tail") used since the last finalize
    consumed,       \* what the last finalize consumed (examples, batches, a row without finite candidate)
    fresh,          \* self.ranks of an evaluator constructed when this one was constructed or last finalized
    reused,         \* a finalize consumed examples and batches were processed after it
    \* ---- RankBasedMetricResults ----
    container,      \* a container produced by finalize
    name,           \* the metric name given to get_metric, as its tokens
    call            \* the call made on the container and its outcome

vars == <<true_score, all_scores, orig_scores, stage, out, out2,
          ks, ranks, ret, history, nbatch, dirs, consumed, fresh, reused,
          container, name, call>>

rankVars == <<true_score, all_scores, orig_scores, stage, out, out2>>
evalVars == <<ks, ranks, ret, history, nbatch, dirs, consumed, fresh, reused>>
metricVars == <<container, name, call>>

\* ------------------------------------------------------------------ bounds
MaxScore == 2       \* finite scores are 1..MaxScore
MaxWidth == 3       \* candidates per row when the rank function is checked alone
MaxExamples == 2    \* examples accumulated between two finalize calls
MaxBatches == 2     \* process calls between two finalize calls
MaxNameLen == 4     \* tokens in a metric name

\* ------------------------------------------------------------------ floats
RECURSIVE GCD(_, _)
GCD(a, b) == IF b = 0 THEN a ELSE GCD(b, a % b)

Abs(x) == IF x < 0 THEN -x ELSE x

\* The rational n/d (d # 0) in lowest terms with a positive denominator.
Rat(n, d) ==
    LET s == IF d < 0 THEN -1 ELSE 1
        g == GCD(Abs(n), Abs(d))
    IN  [k |-> "fin", n |-> (s * n) \div g, d |-> (s * d) \div g]

Fin(i) == [k |-> "fin", n |-> i, d |-> 1]
NaN == [k |-> "nan", n |-> 0, d |-> 1]
PosInf == [k |-> "pinf", n |-> 0, d |-> 1]
NegInf == [k |-> "ninf", n |-> 0, d |-> 1]

IsNaN(x) == x.k = "nan"
IsFinite(x) == x.k = "fin"

\* IEEE comparisons: every comparison with NaN is false.
Gt(a, b) ==
    CASE IsNaN(a) \/ IsNaN(b) -> FALSE
      [] a.k = "pinf" -> b.k # "pinf"
      [] a.k = "ninf" -> FALSE
      [] b.k = "pinf" -> FALSE
      [] b.k = "ninf" -> TRUE
      [] OTHER -> a.n * b.d > b.n * a.d

FEq(a, b) ==
    CASE IsNaN(a) \/ IsNaN(b) -> FALSE
      [] a.k = "fin" /\ b.k = "fin" -> a.n * b.d = b.n * a.d
      [] OTHER -> a.k = b.k

Ge(a, b) == Gt(a, b) \/ FEq(a, b)
Le(a, b) == Ge(b, a)

FAdd(a, b) ==
    CASE IsNaN(a) \/ IsNaN(b) -> NaN
      [] a.k = "pinf" -> IF b.k = "ninf" THEN NaN ELSE PosInf
      [] a.k = "ninf" -> IF b.k = "pinf" THEN NaN ELSE NegInf
      [] b.k # "fin" -> b
      [] OTHER -> Rat(a.n * b.d + b.n * a.d, a.d * b.d)

\* a / b for a finite a >= 0 and a finite b
FDiv(a, b) ==
    IF b.n = 0
    THEN (IF a.n = 0 THEN NaN ELSE IF a.n > 0 THEN PosInf ELSE NegInf)
    ELSE Rat(a.n * b.d, a.d * b.n)

\* np.reciprocal on float64: 1/0 is +inf, 1/nan is nan
Reciprocal(x) ==
    CASE IsNaN(x) -> NaN
      [] x.k \in {"pinf", "ninf"} -> Fin(0)
      [] OTHER -> FDiv(Fin(1), x)

\* ------------------------------------------------ compute_rank_from_scores
RANK_BEST == "best"
RANK_WORST == "worst"
RANK_AVERAGE == "avg"
RANK_TYPES == {RANK_BEST, RANK_WORST, RANK_AVERAGE}
RANK_AVERAGE_ADJUSTED == "adj"

\* (all_scores > true_score).sum(dim=1) + 1, for one row
best_rank_ties_ahead(t, row) == Cardinality({j \in 1..Len(row) : Ge(row[j], t)}) + 1
best_rank(t, row) == Cardinality({j \in 1..Len(row) : Gt(row[j], t)}) + 1

\* (all_scores >= true_score).sum(dim=1), for one row
worst_rank_not_less(t, row) == Cardinality({j \in 1..Len(row) : ~Gt(t, row[j])})
worst_rank(t, row) == Cardinality({j \in 1..Len(row) : Ge(row[j], t)})

\* (best_rank + worst_rank).float() * 0.5
average_rank(t, row) == Rat(best_rank(t, row) + worst_rank(t, row), 2)

\* torch.isfinite(all_scores).sum(dim=1).float()
number_of_options(row) == Cardinality({j \in 1..Len(row) : IsFinite(row[j])})

\* 0.5 * (number_of_options + 1)
expected_rank_plain_count(row) == Rat(number_of_options(row), 2)
expected_rank(row) == Rat(number_of_options(row) + 1, 2)

\* average_rank / expected_rank
adjusted_average_rank(t, row) == FDiv(average_rank(t, row), expected_rank(row))

\* The returned dictionary: each rank kind's per-example values.
compute_rank_from_scores(ts, scores) ==
    [kind \in RANK_TYPES \cup {RANK_AVERAGE_ADJUSTED} |->
        [i \in 1..Len(ts) |->
            CASE kind = RANK_BEST -> Fin(best_rank(ts[i], scores[i]))
              [] kind = RANK_WORST -> Fin(worst_rank(ts[i], scores[i]))
              [] kind = RANK_AVERAGE -> average_rank(ts[i], scores[i])
              [] OTHER -> adjusted_average_rank(ts[i], scores[i])]]

\* ------------------------------------------------------------------ inputs
Scores == {NaN, PosInf, NegInf} \cup {Fin(i) : i \in 1..MaxScore}

RowsOfWidth(S, w) == [1..w -> S]
RowsUpTo(S, w) == UNION {RowsOfWidth(S, n) : n \in 0..w}

RECURSIVE Keep(_, _)
\* the entries of row that are in S, in order
Keep(row, S) ==
    IF row = <<>> THEN <<>>
    ELSE IF Head(row) \in S THEN <<Head(row)>> \o Keep(Tail(row), S)
    ELSE Keep(Tail(row), S)

NoCall == [op |-> "none"]

\* The variables a specification does not use stay at these values.
RankIdle ==
    /\ true_score = <<>> /\ all_scores = <<>> /\ orig_scores = <<>>
    /\ stage = "idle" /\ out = <<>> /\ out2 = <<>>
EvalIdle ==
    /\ ks = <<>> /\ ranks = <<>> /\ ret = NoCall /\ history = <<>> /\ nbatch = 0
    /\ dirs = {} /\ consumed = NoCall /\ fresh = <<>> /\ reused = FALSE
MetricIdle ==
    /\ container = NoCall /\ name = <<>> /\ call = NoCall

\* ------------------------------------- the rank function on a single row
InitRank ==
    /\ true_score \in {<<t>> : t \in Scores}
    /\ all_scores \in {<<row>> : row \in RowsUpTo(Scores, MaxWidth)}
    /\ orig_scores = all_scores
    /\ stage = "new"
    /\ out = <<>>
    /\ out2 = <<>>
    /\ EvalIdle /\ MetricIdle

Compute ==
    /\ stage = "new"
    /\ out' = compute_rank_from_scores(true_score, all_scores)
    /\ out2' = out'
    /\ stage' = "computed"
    /\ UNCHANGED <<true_score, all_scores, orig_scores, evalVars, metricVars>>

\* The same row with its NaN entries removed, ranked again.
DropNaN ==
    /\ stage = "computed"
    /\ all_scores' = <<Keep(all_scores[1], Scores \ {NaN})>>
    /\ out2' = compute_rank_from_scores(true_score, all_scores')
    /\ stage' = "nan_dropped"
    /\ UNCHANGED <<true_score, orig_scores, out, evalVars, metricVars>>

\* The same row with every non-finite entry removed, ranked again.
DropNonFinite ==
    /\ stage = "computed"
    /\ all_scores' = <<Keep(all_scores[1], {x \in Scores : IsFinite(x)})>>
    /\ out2' = compute_rank_from_scores(true_score, all_scores')
    /\ stage' = "nonfinite_dropped"
    /\ UNCHANGED <<true_score, orig_scores, out, evalVars, metricVars>>

NextRank == Compute \/ DropNaN \/ DropNonFinite

SpecRank == InitRank /\ [][NextRank]_vars

\* ------------------------------------------------------ RankBasedEvaluator
\* self.ranks right after construction and after clear(): no key at all
EmptyRanks == [kind \in {} |-> <<>>]

\* _update_ranks_: self.ranks[k].extend(v) for every kind of the batch's
\* ranks; a defaultdict creates the key on first use.
update_ranks_overwrite(r, ts, scores) == compute_rank_from_scores(ts, scores)
update_ranks_prepend(r, ts, scores) ==
    LET batch_ranks == compute_rank_from_scores(ts, scores)
    IN  [kind \in DOMAIN r \cup DOMAIN batch_ranks |->
            (IF kind \in DOMAIN batch_ranks THEN batch_ranks[kind] ELSE <<>>)
            \o (IF kind \in DOMAIN r THEN r[kind] ELSE <<>>)]
update_ranks(r, ts, scores) ==
    LET batch_ranks == compute_rank_from_scores(ts, scores)
    IN  [kind \in DOMAIN r \cup DOMAIN batch_ranks |->
            (IF kind \in DOMAIN r THEN r[kind] ELSE <<>>)
            \o (IF kind \in DOMAIN batch_ranks THEN batch_ranks[kind] ELSE <<>>)]

\* np.asarray(self.ranks.get(kind), dtype=np.float64): a missing key gives
\* None, which becomes a 0-d array holding NaN; a list becomes its array.
asarray_get(r, kind) == IF kind \in DOMAIN r THEN r[kind] ELSE <<NaN>>

RECURSIVE FSum(_)
FSum(a) == IF a = <<>> THEN Fin(0) ELSE FAdd(Head(a), FSum(Tail(a)))

\* np.mean: NaN for an empty array
np_mean(a) ==
    LET sum == FSum(a)
    IN  IF a = <<>> THEN NaN
        ELSE IF sum.k = "fin" THEN Rat(sum.n, sum.d * Len(a)) ELSE sum

\* ranks <= k, elementwise, as the 0/1 values np.mean averages
np_le(a, k) == [i \in 1..Len(a) |-> IF Le(a[i], Fin(k)) THEN Fin(1) ELSE Fin(0)]

np_reciprocal(a) == [i \in 1..Len(a) |-> Reciprocal(a[i])]

Range(f) == {f[i] : i \in DOMAIN f}

\* The RankBasedMetricResults that finalize builds from self.ranks.
finalize_result(r, kk) ==
    [mean_rank |-> [kind \in RANK_TYPES |-> np_mean(asarray_get(r, kind))],
     mean_reciprocal_rank |->
        [kind \in RANK_TYPES |-> np_mean(np_reciprocal(asarray_get(r, kind)))],
     hits_at_k |->
        [kind \in RANK_TYPES |->
            [k \in Range(kk) |-> np_mean(np_le(asarray_get(r, kind), k))]],
     adjusted_mean_rank |-> np_mean(asarray_get(r, RANK_AVERAGE_ADJUSTED))]

\* self.ranks.clear()
cleared_kept(r) == r
cleared(r) == EmptyRanks

\* ---- inputs of the evaluator
KsChoices == {<<1, 3, 5, 10>>, <<1>>}
EvalScores == {NaN, Fin(1), Fin(2)}
\* One example: its true score and its two candidates' scores. The rank math
\* counts a row's entries and never reads their positions, so each pair of
\* candidates is listed once, a NaN first and then the smaller score. A row
\* holds the true triple's own score, as the docstring of
\* compute_rank_from_scores requires, or it is masked out altogether.
EvalRows ==
    {r \in [t : {Fin(1)}, s : RowsOfWidth(EvalScores, 2)] :
        /\ IsNaN(r.s[1]) \/ Le(r.s[1], r.s[2])
        /\ \/ \E j \in 1..2 : FEq(r.s[j], r.t)
           \/ number_of_options(r.s) = 0}
\* the arguments the rank math does not read: (hrt_batch, dense_positive_mask)
Extras == {<<"hrt_a", "None">>, <<"hrt_b", "dense">>}

TrueScores(rows) == [i \in 1..Len(rows) |-> rows[i].t]
AllScores(rows) == [i \in 1..Len(rows) |-> rows[i].s]

InitEval ==
    /\ ks \in KsChoices
    /\ ranks = EmptyRanks
    /\ ret = NoCall
    /\ history = <<>>
    /\ nbatch = 0
    /\ dirs = {}
    /\ consumed = NoCall
    /\ fresh = EmptyRanks
    /\ reused = FALSE
    /\ RankIdle /\ MetricIdle

\* what a process call does to the bookkeeping of the run
Processed(rows, dir) ==
    /\ ret' = NoCall
    /\ history' = history \o rows
    /\ nbatch' = nbatch + 1
    /\ dirs' = dirs \cup {dir}
    /\ reused' = (reused \/ (consumed # NoCall /\ consumed.n > 0))
    /\ consumed' = NoCall
    /\ fresh' = update_ranks(fresh, TrueScores(rows), AllScores(rows))
    /\ UNCHANGED <<ks, rankVars, metricVars>>

process_head_dropped(hrt_batch, rows, dense_positive_mask) ==
    /\ ranks' = ranks
    /\ Processed(rows, "head")

process_tail_scores_(hrt_batch, rows, dense_positive_mask) ==
    /\ ranks' = update_ranks(ranks, TrueScores(rows), AllScores(rows))
    /\ Processed(rows, "tail")

process_head_scores_(hrt_batch, rows, dense_positive_mask) ==
    /\ ranks' = update_ranks(ranks, TrueScores(rows), AllScores(rows))
    /\ Processed(rows, "head")

ProcessTail ==
    /\ nbatch < MaxBatches
    /\ \E b \in 0..(MaxExamples - Len(history)) :
       \E rows \in [1..b -> EvalRows], x \in Extras :
            process_tail_scores_(x[1], rows, x[2])

ProcessHead ==
    /\ nbatch < MaxBatches
    /\ \E b \in 0..(MaxExamples - Len(history)) :
       \E rows \in [1..b -> EvalRows], x \in Extras :
            process_head_scores_(x[1], rows, x[2])

Finalize ==
    /\ ret' = finalize_result(ranks, ks)
    /\ ranks' = cleared(ranks)
    /\ consumed' = [op |-> "finalize", n |-> Len(history), batches |-> nbatch,
                     degenerate |-> \E i \in 1..Len(history) :
                                        number_of_options(history[i].s) = 0]
    /\ fresh' = EmptyRanks
    /\ history' = <<>>
    /\ nbatch' = 0
    /\ dirs' = {}
    /\ UNCHANGED <<ks, reused, rankVars, metricVars>>

Next == ProcessTail \/ ProcessHead \/ Finalize

Spec == InitEval /\ [][Next]_vars


\* -------------------------------------------------- RankBasedMetricResults
\* A metric name is the sequence of its tokens: 'avg.hits_at_10' is
\* <<"avg", ".", "hits_at_", "10">>. No token is a concatenation of others
\* and only "." holds a dot, so name.count('.'), name.split('.'),
\* startswith and int act on the tokens.
NumberTokens == {"1", "3", "5", "10"}
Tokens == {".", "avg", "best", "adj", "mean_rank", "mean_reciprocal_rank",
           "adjusted_mean_rank", "hits_at_", "hits@", "k", "1"}

TokenValue(tok) ==
    CASE tok = "1" -> 1 [] tok = "3" -> 3 [] tok = "5" -> 5 [] tok = "10" -> 10

\* str(k) inside the f-string of to_flat_dict
Str(k) == <<CHOOSE tok \in NumberTokens : TokenValue(tok) = k>>

\* int(text) succeeds on a non-empty run of decimal digits
IsInt(text) == text # <<>> /\ \A i \in 1..Len(text) : text[i] \in NumberTokens

RECURSIVE ParseInt(_)
\* int(text): the decimal value of the concatenated digits
ParseInt(text) ==
    IF text = <<>> THEN 0
    ELSE LET lst == text[Len(text)]
             shift == IF TokenValue(lst) < 10 THEN 10 ELSE 100
         IN  ParseInt(SubSeq(text, 1, Len(text) - 1)) * shift + TokenValue(lst)

\* name.count('.')
DotCount(text) == Cardinality({i \in 1..Len(text) : text[i] = "."})

\* name.split('.') of a name with exactly one dot
Split(text) ==
    LET d == CHOOSE i \in 1..Len(text) : text[i] = "."
    IN  <<SubSeq(text, 1, d - 1), SubSeq(text, d + 1, Len(text))>>

Ok(v) == [t |-> "ok", v |-> v, msg |-> ""]
Raise(exc, msg) == [t |-> exc, v |-> NaN, msg |-> msg]

\* rank_type_hits_at_k[k]
hits_lookup(hits, k) ==
    IF k \in DOMAIN hits THEN Ok(hits[k]) ELSE Raise("KeyError", "k")

\* the rank types as get_metric compares them with the parsed rank_type
RankTypeNames == {<<kind>> : kind \in RANK_TYPES}

\* k = 10 if k == 'k' else int(k)
k_of_first(k) == IF k = <<"k">> THEN 1 ELSE ParseInt(k)
k_of(k) == IF k = <<"k">> THEN 10 ELSE ParseInt(k)

get_metric(c, nm) ==
    IF nm = <<"adjusted_mean_rank">> THEN Ok(c.adjusted_mean_rank)
    ELSE IF DotCount(nm) > 1 THEN Raise("ValueError", "Malformed metric name")
    ELSE
        LET rank_type == IF DotCount(nm) = 0 THEN <<"avg">> ELSE Split(nm)[1]
            metric == IF DotCount(nm) = 0 THEN nm ELSE Split(nm)[2]
        IN  IF rank_type \notin RankTypeNames
            THEN Raise("ValueError", "Invalid rank type")
            ELSE IF metric = <<"mean_rank">> THEN Ok(c.mean_rank[rank_type[1]])
            ELSE IF metric = <<"mean_reciprocal_rank">>
            THEN Ok(c.mean_reciprocal_rank[rank_type[1]])
            ELSE IF metric # <<>> /\ metric[1] \in {"hits_at_", "hits@"}
            THEN LET k == Tail(metric)
                 IN  IF k # <<"k">> /\ ~IsInt(k)
                     THEN Raise("ValueError", "invalid literal for int()")
                     ELSE hits_lookup(c.hits_at_k[rank_type[1]], k_of(k))
            ELSE Raise("ValueError", "Invalid metric name")

FlatKeys(c) ==
    {<<"avg", ".", "adjusted_mean_rank">>}
    \cup {<<kind, ".", "mean_rank">> : kind \in RANK_TYPES}
    \cup {<<kind, ".", "mean_reciprocal_rank">> : kind \in RANK_TYPES}
    \cup UNION {{<<kind, ".", "hits_at_">> \o Str(k) : k \in DOMAIN c.hits_at_k[kind]} :
                    kind \in RANK_TYPES}

to_flat_dict(c) ==
    [key \in FlatKeys(c) |->
        IF key[3] = "adjusted_mean_rank" THEN c.adjusted_mean_rank
        ELSE IF key[3] = "mean_rank" THEN c.mean_rank[key[1]]
        ELSE IF key[3] = "mean_reciprocal_rank" THEN c.mean_reciprocal_rank[key[1]]
        ELSE c.hits_at_k[key[1]][ParseInt(SubSeq(key, 4, Len(key)))]]

\* ---- inputs of the container
\* the runs whose finalize built the container: nothing processed; the two
\* examples <<1 | 1, 1>> and <<1 | 1, 2>> in one batch, under both ks
MetricRuns ==
    {[rows |-> <<>>, n |-> 0, ks |-> <<1, 3, 5, 10>>],
     [rows |-> <<[t |-> Fin(1), s |-> <<Fin(1), Fin(1)>>],
                 [t |-> Fin(1), s |-> <<Fin(1), Fin(2)>>]>>, n |-> 1, ks |-> <<1, 3, 5, 10>>],
     [rows |-> <<[t |-> Fin(1), s |-> <<Fin(1), Fin(1)>>],
                 [t |-> Fin(1), s |-> <<Fin(1), Fin(2)>>]>>, n |-> 1, ks |-> <<1>>]}

Containers ==
    {finalize_result(IF run.n = 0 THEN EmptyRanks
                     ELSE update_ranks(EmptyRanks, TrueScores(run.rows), AllScores(run.rows)),
                     run.ks) : run \in MetricRuns}

Names == UNION {[1..n -> Tokens] : n \in 1..MaxNameLen}

InitMetric ==
    /\ container \in Containers
    /\ name \in Names
    /\ call = NoCall
    /\ RankIdle /\ EvalIdle

GetMetric ==
    /\ call = NoCall
    /\ call' = [op |-> "get_metric", outcome |-> get_metric(container, name)]
    /\ UNCHANGED <<container, name, rankVars, evalVars>>

ToFlatDict ==
    /\ call = NoCall
    /\ call' = [op |-> "to_flat_dict", outcome |-> to_flat_dict(container)]
    /\ UNCHANGED <<container, name, rankVars, evalVars>>

NextMetric == GetMetric \/ ToFlatDict

SpecMetric == InitMetric /\ [][NextMetric]_vars


\* ================================================================== claims

\* best <= avg <= worst for the single row the function was applied to
Ordered(o) == Le(o[RANK_BEST][1], o[RANK_AVERAGE][1]) /\ Le(o[RANK_AVERAGE][1], o[RANK_WORST][1])

\* some candidate's score equals the true score (the true triple is in the row)
TrueAmongCandidates ==
    \E j \in 1..Len(all_scores[1]) : FEq(all_scores[1][j], true_score[1])

\* C1 as stated: for every row, also one where no candidate equals the true
\* score and one with non-finite entries, best <= avg <= worst.
C1_OrderingEveryRow == stage = "computed" => Ordered(out)

\* C1 amended: for every row in which some candidate's score equals the true
\* score, best <= avg <= worst; in every other row worst = best - 1.
C1_OrderingWhenTrueIncluded ==
    stage = "computed" =>
        /\ TrueAmongCandidates => Ordered(out)
        /\ ~TrueAmongCandidates => out[RANK_WORST][1].n = out[RANK_BEST][1].n - 1

\* a computed row with the true score tied, a better candidate and a masked one
C1_Witness ==
    /\ stage = "computed"
    /\ TrueAmongCandidates
    /\ \E j \in 1..Len(all_scores[1]) : ~IsFinite(all_scores[1][j])
    /\ out[RANK_BEST][1].n = 2
    /\ out[RANK_WORST][1].n = 3

SameRanks(a, b) == a[RANK_BEST] = b[RANK_BEST] /\ a[RANK_WORST] = b[RANK_WORST]

\* C4 as stated: removing every non-finite entry (NaN, +inf, -inf) of a row
\* changes neither best, nor worst, nor the finite-candidate count.
C4_NonFiniteNeverCounts ==
    stage = "nonfinite_dropped" =>
        /\ SameRanks(out, out2)
        /\ number_of_options(all_scores[1]) = number_of_options(orig_scores[1])

\* C4 amended: removing the NaN entries of a row changes neither best, nor
\* worst, nor the finite-candidate count (nor the adjusted rank); removing the
\* infinite entries too still leaves the finite-candidate count unchanged.
C4_NaNNeverCounts ==
    /\ stage = "nan_dropped" =>
        /\ SameRanks(out, out2)
        /\ out[RANK_AVERAGE_ADJUSTED] = out2[RANK_AVERAGE_ADJUSTED]
        /\ number_of_options(all_scores[1]) = number_of_options(orig_scores[1])
    /\ stage = "nonfinite_dropped" =>
        number_of_options(all_scores[1]) = number_of_options(orig_scores[1])

\* a NaN was removed from a row that ranks the true triple second among two
\* finite candidates (true score 5 in [5, 7, NaN, 3], up to the scores' values)
C4_Witness ==
    /\ stage = "nan_dropped"
    /\ Len(all_scores[1]) < Len(orig_scores[1])
    /\ number_of_options(orig_scores[1]) = 2
    /\ out2[RANK_BEST][1].n = 2
    /\ out2[RANK_WORST][1].n = 2

\* ---- the evaluator

AllKinds == RANK_TYPES \cup {RANK_AVERAGE_ADJUSTED}

\* a step of finalize: the only call that returns a container
FinalizeStep == ret' # NoCall
\* a step of process_head_scores_ or process_tail_scores_
ProcessStep == ret' = NoCall /\ nbatch' = nbatch + 1

\* every aggregate of a container is NaN
AllNaN(c) ==
    /\ IsNaN(c.adjusted_mean_rank)
    /\ \A kind \in RANK_TYPES :
        /\ IsNaN(c.mean_rank[kind])
        /\ IsNaN(c.mean_reciprocal_rank[kind])
        /\ \A k \in DOMAIN c.hits_at_k[kind] : IsNaN(c.hits_at_k[kind][k])

\* C3 as stated: a finalize with no batch processed since construction or
\* since the previous finalize yields NaN for every aggregate: mean_rank,
\* mean_reciprocal_rank and hits@k of every rank kind, and adjusted_mean_rank.
C3_EmptyFinalizeAllNaN ==
    (consumed # NoCall /\ consumed.batches = 0) => AllNaN(ret)

\* the ranks an evaluator holds after processing rows as one single batch
OneBatch(rows) == update_ranks(EmptyRanks, TrueScores(rows), AllScores(rows))

\* C5: however the examples were split into k >= 1 batches, finalize yields
\* for every rank kind the mean_rank that a fresh evaluator yields after
\* processing the concatenated examples as one batch.
C5_BatchSplitSameMeanRank ==
    [][(FinalizeStep /\ nbatch >= 1) =>
        \A kind \in RANK_TYPES :
            ret'.mean_rank[kind] = finalize_result(OneBatch(history), ks).mean_rank[kind]]_vars

\* two examples, given in two batches, were finalized to a mean avg rank of 3/2
C5_Witness ==
    /\ consumed # NoCall
    /\ consumed.n = 2
    /\ consumed.batches >= 2
    /\ ret.mean_rank[RANK_AVERAGE] = Rat(3, 2)

\* the examples whose row has no finite candidate
Degenerate(rows) == {i \in 1..Len(rows) : number_of_options(rows[i].s) = 0}

\* C6 as stated: a row with zero finite entries gets NaN as its adjusted
\* rank, and a finalize that includes such a row has a NaN adjusted_mean_rank.
C6_DegenerateRowIsNaN ==
    [][(FinalizeStep /\ Degenerate(history) # {}) =>
        /\ \A i \in Degenerate(history) : IsNaN(ranks[RANK_AVERAGE_ADJUSTED][i])
        /\ IsNaN(ret'.adjusted_mean_rank)]_vars

\* C6 amended: a row with zero finite entries gets the finite adjusted rank
\* avg / 0.5 = 2 * avg (the expected rank is (0 + 1) / 2, never zero), and a
\* finalize that includes such a row has a finite adjusted_mean_rank, the
\* mean of the accumulated adjusted ranks.
C6_DegenerateRowIsFinite ==
    [][(FinalizeStep /\ Degenerate(history) # {}) =>
        /\ \A i \in Degenerate(history) :
            ranks[RANK_AVERAGE_ADJUSTED][i] = FAdd(ranks[RANK_AVERAGE][i], ranks[RANK_AVERAGE][i])
        /\ IsFinite(ret'.adjusted_mean_rank)
        /\ ret'.adjusted_mean_rank = np_mean(ranks[RANK_AVERAGE_ADJUSTED])]_vars

\* a finalize consumed a row without finite candidate, and another row
C6_Witness ==
    /\ consumed # NoCall
    /\ consumed.degenerate
    /\ consumed.n = 2
    /\ IsFinite(ret.adjusted_mean_rank)
    /\ ret.adjusted_mean_rank # Fin(1)

\* C8: finalize returns what an evaluator constructed at the previous finalize
\* (or at construction) returns after the same calls, and leaves every
\* accumulation sequence empty.
C8_FinalizeIsBarrier ==
    [][FinalizeStep => (ret' = finalize_result(fresh, ks) /\ ranks' = EmptyRanks)]_vars

\* a second finalize that consumed examples, after a first one that did
C8_Witness ==
    /\ reused
    /\ consumed # NoCall
    /\ consumed.n = 2
    /\ ranks = EmptyRanks

\* the accumulator as the score arguments alone determine it
RanksOfScores(rows, n) == IF n = 0 THEN EmptyRanks ELSE OneBatch(rows)

\* C9: after every call the accumulator, and the result of finalize, are what
\* the score arguments in their order determine: neither the direction of a
\* call nor its hrt_batch and dense_positive_mask arguments have any influence.
C9_HeadTailSameSink ==
    [][/\ ranks' = RanksOfScores(history', nbatch')
       /\ FinalizeStep => ret' = finalize_result(RanksOfScores(history, nbatch), ks)]_vars

\* a head call and a tail call have accumulated one example each
C9_Witness ==
    /\ dirs = {"head", "tail"}
    /\ nbatch = 2
    /\ Len(history) = 2
    /\ Len(ranks[RANK_BEST]) = 2

\* no key at all, or the four keys with one length, the number of examples
KeysAndLengths ==
    \/ DOMAIN ranks = {}
    \/ /\ DOMAIN ranks = AllKinds
       /\ \A kind \in AllKinds : Len(ranks[kind]) = Len(history)

\* C10: the accumulator has no key or exactly the keys best, worst, avg and
\* adj with sequences as long as the number of examples processed since
\* construction or the last finalize; a process call appends batch-size
\* values to each of the four and leaves the values before them unchanged.
C10_AccumulatorShape ==
    /\ []KeysAndLengths
    /\ [][ProcessStep =>
            /\ DOMAIN ranks' = AllKinds
            /\ \A kind \in AllKinds :
                LET old == IF kind \in DOMAIN ranks THEN ranks[kind] ELSE <<>>
                IN  /\ Len(ranks'[kind]) = Len(old) + (Len(history') - Len(history))
                    /\ SubSeq(ranks'[kind], 1, Len(old)) = old]_vars

\* a second batch was appended behind a first, non-empty one
C10_Witness ==
    /\ nbatch = 2
    /\ Len(history) = 2
    /\ DOMAIN ranks = AllKinds
    /\ ranks[RANK_BEST][1] # ranks[RANK_BEST][2]

\* ---- the container

\* C2 as stated: get_metric returns, for every key of to_flat_dict's output
\* ('avg.adjusted_mean_rank' too), the value stored under that key, and
\* get_metric('hits@k') returns what get_metric('avg.hits_at_10') returns.
C2_FlatKeysReadBack ==
    call.op = "to_flat_dict" =>
        /\ \A key \in DOMAIN call.outcome :
            get_metric(container, key) = Ok(call.outcome[key])
        /\ get_metric(container, <<"hits@", "k">>).t = "ok"
        /\ get_metric(container, <<"hits@", "k">>)
            = get_metric(container, <<"avg", ".", "hits_at_", "10">>)

\* the rank kind and the metric a name with at most one dot spells
KindOf(nm) == IF DotCount(nm) = 0 THEN <<"avg">> ELSE Split(nm)[1]
MetricOf(nm) == IF DotCount(nm) = 0 THEN nm ELSE Split(nm)[2]

IsHits(metric) ==
    /\ Len(metric) >= 2
    /\ metric[1] \in {"hits_at_", "hits@"}
    /\ Tail(metric) = <<"k">> \/ IsInt(Tail(metric))

\* the k a hits designator names: the literal k is 10
HitsK(metric) == IF Tail(metric) = <<"k">> THEN 10 ELSE ParseInt(Tail(metric))

Recognized(metric) ==
    metric \in {<<"mean_rank">>, <<"mean_reciprocal_rank">>} \/ IsHits(metric)

\* the value the container stores for a rank kind and a recognized metric
Stored(c, kind, metric) ==
    IF metric = <<"mean_rank">> THEN c.mean_rank[kind]
    ELSE IF metric = <<"mean_reciprocal_rank">> THEN c.mean_reciprocal_rank[kind]
    ELSE c.hits_at_k[kind][HitsK(metric)]

Configured(c, metric) ==
    IsHits(metric) => HitsK(metric) \in DOMAIN c.hits_at_k[RANK_AVERAGE]

\* get_metric, for a name other than the reserved one, against a set of rank
\* kinds: an invalid name raises ValueError, a valid one returns the value.
NameContract(kinds) ==
    (call.op = "get_metric" /\ name # <<"adjusted_mean_rank">>) =>
        /\ (\/ DotCount(name) > 1
            \/ Len(KindOf(name)) # 1
            \/ KindOf(name)[1] \notin kinds
            \/ ~Recognized(MetricOf(name))) => call.outcome.t = "ValueError"
        /\ (/\ DotCount(name) <= 1
            /\ Len(KindOf(name)) = 1
            /\ KindOf(name)[1] \in kinds
            /\ Recognized(MetricOf(name))
            /\ Configured(container, MetricOf(name))) =>
                /\ call.outcome.t = "ok"
                /\ KindOf(name)[1] \in RANK_TYPES =>
                    call.outcome.v = Stored(container, KindOf(name)[1], MetricOf(name))

\* C7 as stated: the rank kinds a name may carry are best, worst, avg and adj.
C7_NamesWithAdj == NameContract({"best", "worst", "avg", "adj"})

\* C7 amended: get_metric(name), for name other than the reserved
\* 'adjusted_mean_rank', raises ValueError if the name has more than one dot,
\* or its rank kind is not in {best, worst, avg}, or its metric is
\* unrecognized; and for every name whose rank kind is in {best, worst, avg}
\* (or omitted, meaning avg) and whose metric is mean_rank,
\* mean_reciprocal_rank or hits_at_<k>/hits@<k> for a configured k (the
\* literal k meaning 10), it returns the stored value. 'adj.<metric>' raises
\* ValueError.
C7_NamesWithoutAdj == NameContract(RANK_TYPES)

\* 'best.hits@k' returned the stored k = 10 entry, which differs from hits@1
C7_Witness ==
    /\ call.op = "get_metric"
    /\ name = <<"best", ".", "hits@", "k">>
    /\ call.outcome = Ok(Fin(1))
    /\ container.hits_at_k[RANK_BEST][1] = Rat(1, 2)

====
